---- MODULE Spec2Model ----
(***************************************************************************)
(* Model of django_sharding_library/models.py: the primary-shard resolver  *)
(* behind SHARD_CHOICES, the counter table of the table ID strategy, the   *)
(* shard mapping table, the sharded-by mixin and the explicit-target write *)
(* path (ShardLookupQuerySet.bulk_create, ShardLookupBaseModel.save).      *)
(*                                                                         *)
(* Strings whose order matters (database names, shard groups) are          *)
(* sequences of code points, so that sorted() is a real lexicographic      *)
(* sort; the empty string is <<>>.                                         *)
(***************************************************************************)
EXTENDS Integers, Sequences, FiniteSets, Bags, TLC

VARIABLES
    \* settings and the sharded model class
    DATABASES,      \* settings.DATABASES: sequence of <<name, settings dict>>, in key order
    shard_group,    \* cls.shard_group of the model class using ShardedByMixin (<<>>: class not defined yet)
    SHARD_CHOICES,  \* ShardedByMixin.SHARD_CHOICES, materialised: sequence of <<i, i>>
    choices_ready,  \* TRUE once the class body (and so SHARD_CHOICES) has been evaluated
    \* the instance of the sharded model that is being created
    shard,          \* instance.shard (<<>>: blank, not assigned)
    stored,         \* what the database holds of the instance: [saved, shard]
    hook_outcome,   \* outcome of the last pre-save hook run on the instance
    \* explicit-target write path
    state_db,       \* obj._state.db per entity (NoDb: None)
    last_write,     \* the last save / bulk_create call and what it handed to super()
    \* counter table of the table ID strategy
    rows,           \* rows of the table: set of [id, stub]
    autoinc,        \* next value of the AUTO_INCREMENT / sequence behind id
    pc,             \* per caller: position in the next-id protocol
    attempts,       \* per caller: failed insert attempts of the current call
    got,            \* per caller: id assigned by the successful insert (0: none)
    calls,          \* calls started so far
    commit_log,     \* ids in the order the backend committed their inserts
    returned,       \* bag of the ids the calls returned
    \* shard mapping table
    mapping,        \* shard_key -> shard (NoShard: no row)
    map_last,       \* the last mapping operation and its outcome
    map_ops         \* number of mapping operations so far

resolverVars == <<DATABASES, shard_group, SHARD_CHOICES, choices_ready>>
assignVars == <<shard, stored, hook_outcome>>
writeVars == <<state_db, last_write>>
idVars == <<rows, autoinc, pc, attempts, got, calls, commit_log, returned>>
storeVars == <<mapping, map_last, map_ops>>
vars == <<resolverVars, assignVars, writeVars, idVars, storeVars>>

----------------------------------------------------------------------------
(* Bounds *)

MaxDbs == 3             \* entries of settings.DATABASES when the resolver is checked
MaxAssignDbs == 2       \* entries of settings.DATABASES when assignment is checked
NumEntities == 2        \* model instances
MaxBatch == 2           \* length of the list handed to bulk_create
NumCallers == 2         \* concurrent callers of the next-id protocol
MaxCalls == 3           \* next-id calls started in one run
RetryBudget == 2        \* insert attempts of one call before contention is surfaced
NumKeys == 2            \* shard keys
MaxMapOps == 3          \* mapping operations in one run

Entities == 1..NumEntities
Callers == 1..NumCallers

----------------------------------------------------------------------------
(* Strings and Python helpers *)

\* Database names: "a", "aa", "ab", "b" as code-point sequences.
DbNames == {<<1>>, <<1, 1>>, <<1, 2>>, <<2>>}

\* Shard group tags that a settings entry may carry: "", "g", "h".
GroupTags == {<<>>, <<7>>, <<8>>}

\* Shard groups a model class may declare: "g", "h".
ModelGroups == {<<7>>, <<8>>}

\* Python str.__lt__: lexicographic by code point, a proper prefix is smaller.
RECURSIVE StrLess(_, _)
StrLess(a, b) ==
    IF a = <<>> THEN b # <<>>
    ELSE IF b = <<>> THEN FALSE
    ELSE IF Head(a) < Head(b) THEN TRUE
    ELSE IF Head(b) < Head(a) THEN FALSE
    ELSE StrLess(Tail(a), Tail(b))

\* Insertion of x into an ascending list, keeping equal elements stable.
RECURSIVE InsertSorted(_, _)
InsertSorted(x, s) ==
    IF s = <<>> THEN <<x>>
    ELSE IF StrLess(x, Head(s)) THEN <<x>> \o s
    ELSE <<Head(s)>> \o InsertSorted(x, Tail(s))

\* sorted() left out: the names stay in key order.
KeyOrder(s) == s

\* Python sorted(iterable) on strings.
RECURSIVE sorted(_)
sorted(s) ==
    IF s = <<>> THEN <<>>
    ELSE InsertSorted(s[Len(s)], sorted(SubSeq(s, 1, Len(s) - 1)))

\* bool(d.get(key, None)): the key is present and its value is not empty.
GetTruthy(d, key) == key \in DOMAIN d /\ d[key] # <<>>

----------------------------------------------------------------------------
(* settings.DATABASES *)

\* The settings dict of one database; PRIMARY and SHARD_GROUP are optional keys.
DbSettings ==
    {[ENGINE |-> "sql"]}
    \cup {[ENGINE |-> "sql", PRIMARY |-> <<1>>]}
    \cup {[ENGINE |-> "sql", SHARD_GROUP |-> g] : g \in GroupTags}
    \cup {[ENGINE |-> "sql", PRIMARY |-> <<1>>, SHARD_GROUP |-> g] : g \in GroupTags}

\* Sequences of at most n pairwise distinct database names.
RECURSIVE DistinctNameSeqs(_)
DistinctNameSeqs(n) ==
    IF n = 0 THEN {<<>>}
    ELSE LET shorter == DistinctNameSeqs(n - 1)
         IN  shorter \cup
             {Append(t, x) : <<t, x>> \in
                 {p \in shorter \X DbNames :
                     /\ Len(p[1]) = n - 1
                     /\ \A i \in 1..Len(p[1]) : p[1][i] # p[2]}}

\* dbs is a settings.DATABASES with at most n entries.
IsDatabaseConfig(dbs, n) ==
    \E ks \in DistinctNameSeqs(n) :
        \E st \in [1..Len(ks) -> DbSettings] :
            dbs = [i \in 1..Len(ks) |-> <<ks[i], st[i]>>]

\* settings.DATABASES.keys()
Keys(dbs) == [i \in 1..Len(dbs) |-> dbs[i][1]]

\* settings.DATABASES[db]
Lookup(dbs, db) == (CHOOSE i \in 1..Len(dbs) : dbs[i][1] = db)

SettingsOf(dbs, db) == dbs[Lookup(dbs, db)][2]

----------------------------------------------------------------------------
(* _get_primary_shards and SHARD_CHOICES *)

\* The lambda without its PRIMARY test: replicas pass.
HasShardGroupOnly(dbs, db) == GetTruthy(SettingsOf(dbs, db), "SHARD_GROUP")

\* The lambda of _get_primary_shards: no PRIMARY and a SHARD_GROUP.
IsPrimaryShard(dbs, db) ==
    /\ ~GetTruthy(SettingsOf(dbs, db), "PRIMARY")
    /\ GetTruthy(SettingsOf(dbs, db), "SHARD_GROUP")

\* filter(lambda db: ..., names): the names that pass the lambda, in the
\* order of the iterable.
RECURSIVE filter(_, _)
filter(dbs, names) ==
    IF names = <<>> THEN <<>>
    ELSE IF IsPrimaryShard(dbs, Head(names))
         THEN <<Head(names)>> \o filter(dbs, Tail(names))
         ELSE filter(dbs, Tail(names))

_get_primary_shards(dbs) == sorted(filter(dbs, Keys(dbs)))

\* ((i, i) for i in _get_primary_shards())
ShardChoices(dbs) ==
    LET r == _get_primary_shards(dbs)
    IN  [i \in 1..Len(r) |-> <<r[i], r[i]>>]

\* The body of a model class that mixes in ShardedByMixin and declares
\* shard_group = g is evaluated: SHARD_CHOICES is built from the settings.
DefineShardedModel(g) ==
    /\ ~choices_ready
    /\ shard_group' = g
    /\ SHARD_CHOICES' = ShardChoices(DATABASES)
    /\ choices_ready' = TRUE
    /\ UNCHANGED DATABASES

\* The resolver as the assignment hook and the mixin call it: the function
\* takes no shard group, so the group asked for does not enter the result.
primaryShardsFor(dbs, g) == _get_primary_shards(dbs)

ResolverInit ==
    /\ IsDatabaseConfig(DATABASES, MaxDbs)
    /\ shard_group = <<>>
    /\ SHARD_CHOICES = <<>>
    /\ choices_ready = FALSE

\* The settings are loaded and the sharded model class is already defined.
ResolverQuiet(n) ==
    /\ IsDatabaseConfig(DATABASES, n)
    /\ shard_group \in ModelGroups
    /\ SHARD_CHOICES = ShardChoices(DATABASES)
    /\ choices_ready = TRUE

----------------------------------------------------------------------------
(* ShardedByMixin instances and the pre-save hook (save_shard_handler) *)

NoShard == <<>>

Unsaved == [saved |-> FALSE, shard |-> NoShard]

\* The hook without its guard: it assigns on every run.
HookAlwaysAssigns(current) == TRUE

\* The hook assigns only when the shard field is still blank.
HookMustAssign(current) == current = NoShard

\* The pre-save hook on the instance: a no-op when the shard is set,
\* otherwise one of the resolver's shards is stamped on the instance, and an
\* empty resolver result is a ConfigurationError.
save_shard_handler ==
    IF ~HookMustAssign(shard)
    THEN /\ hook_outcome' = "noop"
         /\ UNCHANGED shard
    ELSE LET r == primaryShardsFor(DATABASES, shard_group)
         IN  IF r = <<>>
             THEN /\ hook_outcome' = "ConfigurationError"
                  /\ UNCHANGED shard
             ELSE \E i \in 1..Len(r) :
                      /\ shard' = r[i]
                      /\ hook_outcome' = "assigned"

\* The hook is invoked on its own (a second registration, a direct call).
InvokeHook ==
    /\ save_shard_handler
    /\ UNCHANGED stored

\* instance.save(): the pre-save signal runs the hook; an exception of the
\* hook aborts the save, otherwise the row is written with the shard.
SaveEntity ==
    /\ save_shard_handler
    /\ stored' = IF hook_outcome' = "ConfigurationError"
                 THEN stored
                 ELSE [saved |-> TRUE, shard |-> shard']

AssignInit ==
    /\ shard = NoShard
    /\ stored = Unsaved
    /\ hook_outcome = "none"

AssignQuiet == AssignInit

----------------------------------------------------------------------------
(* ShardLookupQuerySet.bulk_create and ShardLookupBaseModel.save *)

NoDb == "<None>"            \* obj._state.db is None / using=None
Absent == "<absent>"        \* the keyword argument was not passed

Conns == {"shard_1", "shard_2"}

\* **kwargs of save(): with or without the `using` keyword.
SaveKwargs ==
    {[force_insert |-> FALSE]}
    \cup {[force_insert |-> FALSE, using |-> c] : c \in Conns \cup {NoDb}}

UsingOf(kwargs) == IF "using" \in DOMAIN kwargs THEN kwargs.using ELSE Absent

\* save() binding `using` whenever it is passed, bound or not.
BindForSaveOverwrites(db, kwargs) ==
    IF "using" \in DOMAIN kwargs THEN kwargs.using ELSE db

\* save(), lines 90-91: bind kwargs["using"] unless a database is bound.
\* Absent stands for the KeyError of kwargs["using"].
BindForSave(db, kwargs) ==
    IF db = NoDb THEN UsingOf(kwargs) ELSE db

\* bulk_create() binding self._db to every object, bound or not.
BindForBulkOverwrites(db, qs_db) == qs_db

\* bulk_create(), lines 68-69: bind self._db to an object without database.
BindForBulk(db, qs_db) ==
    IF db = NoDb THEN qs_db ELSE db

\* Model.save() of the framework leaves the instance on the database it
\* wrote to: `using` when given, otherwise the router's choice.
DbAfterSuperSave(kwargs) ==
    IF UsingOf(kwargs) \in Conns THEN {UsingOf(kwargs)} ELSE Conns

\* QuerySet.bulk_create() of the framework writes to self.db: self._db, or
\* the router's choice.
DbOfSuperBulk(qs_db) ==
    IF qs_db \in Conns THEN {qs_db} ELSE Conns

\* ShardLookupBaseModel.save(self, **kwargs)
save(e, kwargs) ==
    LET bound == BindForSave(state_db[e], kwargs)
    IN  IF bound = Absent
        THEN \* kwargs["using"] raises KeyError before super().save()
             /\ last_write' = [op |-> "save", objs |-> <<e>>, target |-> UsingOf(kwargs),
                               before |-> state_db, seen |-> <<>>,
                               delegated |-> FALSE, outcome |-> "KeyError"]
             /\ UNCHANGED state_db
        ELSE /\ last_write' = [op |-> "save", objs |-> <<e>>, target |-> UsingOf(kwargs),
                               before |-> state_db, seen |-> <<bound>>,
                               delegated |-> TRUE, outcome |-> "ok"]
             /\ \E after \in DbAfterSuperSave(kwargs) :
                    state_db' = [state_db EXCEPT ![e] = after]

\* ShardLookupQuerySet.bulk_create(self, objs, batch_size=None)
bulk_create(objs, qs_db) ==
    LET bound == [e \in Entities |->
                     IF \E i \in 1..Len(objs) : objs[i] = e
                     THEN BindForBulk(state_db[e], qs_db)
                     ELSE state_db[e]]
    IN  /\ last_write' = [op |-> "bulk_create", objs |-> objs, target |-> qs_db,
                          before |-> state_db,
                          seen |-> [i \in 1..Len(objs) |-> bound[objs[i]]],
                          delegated |-> TRUE, outcome |-> "ok"]
        \* depending on its version the framework leaves the objects bound
        \* as they are or rebinds them to the database it wrote to
        /\ \E rebind \in BOOLEAN, written \in DbOfSuperBulk(qs_db) :
               state_db' = [e \in Entities |->
                               IF rebind /\ \E i \in 1..Len(objs) : objs[i] = e
                               THEN written
                               ELSE bound[e]]

NoWrite == [op |-> "none", objs |-> <<>>, target |-> Absent,
            before |-> [e \in Entities |-> NoDb], seen |-> <<>>,
            delegated |-> FALSE, outcome |-> "none"]

\* Lists of at most MaxBatch entities (an object may occur twice).
ObjLists == UNION {[1..n -> Entities] : n \in 0..MaxBatch}

WriteInit ==
    /\ state_db \in [Entities -> Conns \cup {NoDb}]
    /\ last_write = NoWrite

WriteQuiet ==
    /\ state_db = [e \in Entities |-> NoDb]
    /\ last_write = NoWrite

----------------------------------------------------------------------------
(* TableStrategyModel: the counter table and the next-id protocol on it *)

\* stub = NullBooleanField(null=True, default=True, unique=True)
StubDefault == "True"
StubNull == "None"

\* stub without unique=True: no insert is refused.
NoUniqueConstraint(table, stub) == FALSE

\* unique=True on stub: a second row with the same non-NULL stub is refused.
UniqueConflict(table, stub) ==
    stub # StubNull /\ \E r \in table : r.stub = stub

\* An id computed from the rows present (MAX(id) + 1) instead of a counter.
AllocateIdFromRows(table, counter) ==
    IF table = {} THEN 1
    ELSE 1 + (CHOOSE m \in {r.id : r \in table} : \A r \in table : r.id <= m)

\* id = BigAutoField(primary_key=True): the backend hands out the next value
\* of the table's counter, whatever rows the table holds.
AllocateId(table, counter) == counter

\* A budget that allows one attempt too many.
BudgetExhaustedLate(n) == n > RetryBudget

\* The retry budget of one call is used up after n refused inserts.
BudgetExhausted(n) == n >= RetryBudget

\* A caller starts a next-id call.
StartCall(c) ==
    /\ pc[c] = "idle"
    /\ calls < MaxCalls
    /\ pc' = [pc EXCEPT ![c] = "insert"]
    /\ calls' = calls + 1
    /\ attempts' = [attempts EXCEPT ![c] = 0]
    /\ got' = [got EXCEPT ![c] = 0]
    /\ UNCHANGED <<rows, autoinc, commit_log, returned>>

\* One INSERT of a row with the default stub.  A conflict counts against the
\* retry budget; whether the refused insert uses up a counter value depends
\* on the backend.
InsertRow(c) ==
    /\ pc[c] = "insert"
    /\ IF UniqueConflict(rows, StubDefault)
       THEN /\ attempts' = [attempts EXCEPT ![c] = @ + 1]
            /\ pc' = [pc EXCEPT ![c] = IF BudgetExhausted(attempts[c] + 1)
                                       THEN "failed" ELSE "insert"]
            /\ \E burn \in {0, 1} : autoinc' = autoinc + burn
            /\ UNCHANGED <<rows, got, commit_log>>
       ELSE LET id == AllocateId(rows, autoinc)
            IN  /\ rows' = rows \cup {[id |-> id, stub |-> StubDefault]}
                /\ autoinc' = autoinc + 1
                /\ got' = [got EXCEPT ![c] = id]
                /\ commit_log' = Append(commit_log, id)
                /\ pc' = [pc EXCEPT ![c] = "delete"]
                /\ UNCHANGED attempts
    /\ UNCHANGED <<calls, returned>>

\* The caller removes its row and returns the id.
DeleteRow(c) ==
    /\ pc[c] = "delete"
    /\ rows' = {r \in rows : r.id # got[c]}
    /\ returned' = returned (+) SetToBag({got[c]})
    /\ pc' = [pc EXCEPT ![c] = "done"]
    /\ UNCHANGED <<autoinc, attempts, got, calls, commit_log>>

\* The call is over (an id, or the contention error): its locals are gone
\* and the caller is idle again.
FinishCall(c) ==
    /\ pc[c] \in {"done", "failed"}
    /\ pc' = [pc EXCEPT ![c] = "idle"]
    /\ attempts' = [attempts EXCEPT ![c] = 0]
    /\ got' = [got EXCEPT ![c] = 0]
    /\ UNCHANGED <<rows, autoinc, calls, commit_log, returned>>

CallerStep(c) ==
    \/ StartCall(c)
    \/ InsertRow(c)
    \/ DeleteRow(c)
    \/ FinishCall(c)

IdInit ==
    /\ rows = {}
    /\ autoinc = 1
    /\ pc = [c \in Callers |-> "idle"]
    /\ attempts = [c \in Callers |-> 0]
    /\ got = [c \in Callers |-> 0]
    /\ calls = 0
    /\ commit_log = <<>>
    /\ returned = EmptyBag

IdQuiet == IdInit

----------------------------------------------------------------------------
(* ShardStorageModel: the shard mapping table *)

ShardKeys == 1..NumKeys

\* Shard names written to the table: "a", "b".
StoreShards == {<<1>>, <<2>>}

\* shard_key without primary_key=True: no insert is refused.
NoPrimaryKey(table, k) == FALSE

\* shard_key = CharField(primary_key=True): an INSERT of a key that has a row
\* is refused.
PrimaryKeyConflict(table, k) == table[k] # NoShard

\* recordMapping(k, s): INSERT (shard_key, shard).
recordMapping(k, s) ==
    /\ map_ops < MaxMapOps
    /\ map_ops' = map_ops + 1
    /\ IF PrimaryKeyConflict(mapping, k)
       THEN /\ map_last' = [op |-> "recordMapping", key |-> k, shard |-> s,
                            outcome |-> "DuplicateKey"]
            /\ UNCHANGED mapping
       ELSE /\ map_last' = [op |-> "recordMapping", key |-> k, shard |-> s,
                            outcome |-> "ok"]
            /\ mapping' = [mapping EXCEPT ![k] = s]

\* lookupShard(k): SELECT shard WHERE shard_key = k.
lookupShard(k) ==
    /\ map_ops < MaxMapOps
    /\ map_ops' = map_ops + 1
    /\ map_last' = [op |-> "lookupShard", key |-> k, shard |-> mapping[k],
                    outcome |-> IF mapping[k] = NoShard THEN "NotFound" ELSE "found"]
    /\ UNCHANGED mapping

StoreInit ==
    /\ mapping = [k \in ShardKeys |-> NoShard]
    /\ map_last = [op |-> "none", key |-> 0, shard |-> NoShard, outcome |-> "none"]
    /\ map_ops = 0

StoreQuiet == StoreInit

----------------------------------------------------------------------------
(* Specifications: one per component, the other components at rest *)

ResolverSpecInit ==
    ResolverInit /\ AssignQuiet /\ WriteQuiet /\ IdQuiet /\ StoreQuiet

ResolverSpecNext ==
    \E g \in ModelGroups :
        DefineShardedModel(g) /\ UNCHANGED <<assignVars, writeVars, idVars, storeVars>>

ResolverSpec == ResolverSpecInit /\ [][ResolverSpecNext]_vars

AssignSpecInit ==
    ResolverQuiet(MaxAssignDbs) /\ AssignInit /\ WriteQuiet /\ IdQuiet /\ StoreQuiet

AssignSpecNext ==
    \/ InvokeHook /\ UNCHANGED <<resolverVars, writeVars, idVars, storeVars>>
    \/ SaveEntity /\ UNCHANGED <<resolverVars, writeVars, idVars, storeVars>>

AssignSpec == AssignSpecInit /\ [][AssignSpecNext]_vars

WriteSpecInit ==
    ResolverQuiet(0) /\ AssignQuiet /\ WriteInit /\ IdQuiet /\ StoreQuiet

WriteSpecNext ==
    \/ \E e \in Entities, kwargs \in SaveKwargs :
           save(e, kwargs) /\ UNCHANGED <<resolverVars, assignVars, idVars, storeVars>>
    \/ \E objs \in ObjLists, qs_db \in Conns \cup {NoDb} :
           bulk_create(objs, qs_db)
           /\ UNCHANGED <<resolverVars, assignVars, idVars, storeVars>>

WriteSpec == WriteSpecInit /\ [][WriteSpecNext]_vars

IdSpecInit ==
    ResolverQuiet(0) /\ AssignQuiet /\ WriteQuiet /\ IdInit /\ StoreQuiet

IdSpecNext ==
    \E c \in Callers :
        \/ StartCall(c) /\ UNCHANGED <<resolverVars, assignVars, writeVars, storeVars>>
        \/ InsertRow(c) /\ UNCHANGED <<resolverVars, assignVars, writeVars, storeVars>>
        \/ DeleteRow(c) /\ UNCHANGED <<resolverVars, assignVars, writeVars, storeVars>>
        \/ FinishCall(c) /\ UNCHANGED <<resolverVars, assignVars, writeVars, storeVars>>

IdSpec == IdSpecInit /\ [][IdSpecNext]_vars

\* Every caller runs on its own thread of control and keeps being scheduled.
IdLiveSpec ==
    /\ IdSpec
    /\ \A c \in Callers :
           WF_vars(CallerStep(c)
                   /\ UNCHANGED <<resolverVars, assignVars, writeVars, storeVars>>)

StoreSpecInit ==
    ResolverQuiet(0) /\ AssignQuiet /\ WriteQuiet /\ IdQuiet /\ StoreInit

StoreSpecNext ==
    \/ \E k \in ShardKeys, s \in StoreShards :
           recordMapping(k, s) /\ UNCHANGED <<resolverVars, assignVars, writeVars, idVars>>
    \/ \E k \in ShardKeys :
           lookupShard(k) /\ UNCHANGED <<resolverVars, assignVars, writeVars, idVars>>

StoreSpec == StoreSpecInit /\ [][StoreSpecNext]_vars

----------------------------------------------------------------------------
(* Properties of the resolver (ResolverSpec) *)

\* The names listed by SHARD_CHOICES, in order.
ChoiceNames == [i \in 1..Len(SHARD_CHOICES) |-> SHARD_CHOICES[i][1]]

Ascending(r) == \A i, j \in 1..Len(r) : i < j => StrLess(r[i], r[j])

Elements(r) == {r[i] : i \in 1..Len(r)}

HasPrimaryRef(st) == "PRIMARY" \in DOMAIN st /\ st.PRIMARY # <<>>

HasGroup(st) == "SHARD_GROUP" \in DOMAIN st /\ st.SHARD_GROUP # <<>>

InGroup(st, g) == "SHARD_GROUP" \in DOMAIN st /\ st.SHARD_GROUP = g

\* Names of the entries of settings.DATABASES whose settings satisfy P.
NamesWhere(P(_)) == {DATABASES[i][1] : i \in {j \in 1..Len(DATABASES) : P(DATABASES[j][2])}}

\* C1, as stated: for the shard group g of the model, the choices are the
\* sorted names of exactly the shards without PRIMARY whose SHARD_GROUP is g.
C1_ChoicesOfGroupOnly ==
    choices_ready =>
        LET ofGroup(st) == ~HasPrimaryRef(st) /\ InGroup(st, shard_group)
        IN  /\ Ascending(ChoiceNames)
            /\ Elements(ChoiceNames) = NamesWhere(ofGroup)

\* C1, amended: the choices are the lexicographically sorted names of exactly
\* the shards without PRIMARY that carry a non-empty SHARD_GROUP, of whatever
\* group; each choice is the pair (name, name).
C1_ChoicesOfAllGroups ==
    choices_ready =>
        LET candidate(st) == ~HasPrimaryRef(st) /\ HasGroup(st)
        IN  /\ Ascending(ChoiceNames)
            /\ Elements(ChoiceNames) = NamesWhere(candidate)
            /\ \A i \in 1..Len(SHARD_CHOICES) : SHARD_CHOICES[i][1] = SHARD_CHOICES[i][2]

\* C1 witness: choices of two shards that stood in descending key order,
\* with a replica and an ungrouped database left out.
C1_Witness ==
    /\ choices_ready
    /\ Len(SHARD_CHOICES) = 2
    /\ Len(DATABASES) = MaxDbs
    /\ \E i, j \in 1..Len(DATABASES) :
           /\ i < j
           /\ DATABASES[i][1] = ChoiceNames[2]
           /\ DATABASES[j][1] = ChoiceNames[1]
    /\ \E i \in 1..Len(DATABASES) :
           HasPrimaryRef(DATABASES[i][2]) \/ ~HasGroup(DATABASES[i][2])

----------------------------------------------------------------------------
(* Properties of assignment (AssignSpec) *)

\* No entry of settings.DATABASES is a primary candidate.
NoCandidates ==
    \A i \in 1..Len(DATABASES) :
        HasPrimaryRef(DATABASES[i][2]) \/ ~HasGroup(DATABASES[i][2])

\* C4: once set, instance.shard never changes, whatever runs later (the hook
\* again, a save), and a saved row carries the shard that was assigned before
\* the first write.
C4_AssignOnce ==
    [][/\ shard # NoShard => shard' = shard
       /\ stored'.saved => (shard' # NoShard /\ stored'.shard = shard')
       /\ stored.saved => stored' = stored]_vars

\* C4 witness: the hook ran as a no-op on the saved instance although the
\* resolver offered another shard.
C4_Witness ==
    /\ hook_outcome = "noop"
    /\ stored.saved
    /\ Len(SHARD_CHOICES) >= 2

----------------------------------------------------------------------------
(* Properties of the write path (WriteSpec) *)

\* The call involved an object that had no database bound.
UnboundInvolved ==
    \E i \in 1..Len(last_write.objs) : last_write.before[last_write.objs[i]] = NoDb

\* C5: when bulk_create on a queryset bound to a database hands the list to
\* the batched insert, every object is bound: a bound object kept its
\* database, an unbound one has the queryset's, and the list is whole.
C5_BulkBindsBeforeBatch ==
    (last_write.op = "bulk_create" /\ last_write.target \in Conns) =>
        /\ last_write.delegated
        /\ Len(last_write.seen) = Len(last_write.objs)
        /\ \A i \in 1..Len(last_write.objs) :
               LET was == last_write.before[last_write.objs[i]]
               IN  /\ last_write.seen[i] \in Conns
                   /\ last_write.seen[i] = IF was # NoDb THEN was ELSE last_write.target

\* C5 witness: a batch of a bound object (on another database) and an
\* unbound one.
C5_Witness ==
    /\ last_write.op = "bulk_create"
    /\ last_write.target \in Conns
    /\ Len(last_write.objs) = 2
    /\ last_write.before[last_write.objs[1]] \in Conns \ {last_write.target}
    /\ last_write.before[last_write.objs[2]] = NoDb

\* C6: when save() delegates to the framework's save, an instance that had
\* no database is bound to `using`, and a bound one is bound as before.
C6_SaveFirstBindWins ==
    (last_write.op = "save" /\ last_write.delegated) =>
        LET was == last_write.before[last_write.objs[1]]
        IN  last_write.seen[1] = IF was = NoDb THEN last_write.target ELSE was

\* C6 witness: save(using=c) on an instance bound to another database.
C6_Witness ==
    /\ last_write.op = "save"
    /\ last_write.delegated
    /\ last_write.target \in Conns
    /\ last_write.before[last_write.objs[1]] \in Conns \ {last_write.target}

\* C7, as stated: a save or bulk_create without target that involves an
\* unbound object is refused before the framework is called, and no other
\* call is refused.
C7_MissingTargetRefused ==
    last_write.op # "none" =>
        IF last_write.target \notin Conns /\ UnboundInvolved
        THEN last_write.outcome = "KeyError" /\ ~last_write.delegated
        ELSE last_write.outcome = "ok" /\ last_write.delegated

----------------------------------------------------------------------------
(* Properties of the counter table (IdSpec, IdLiveSpec) *)

\* C2: the ids returned are pairwise distinct, each is the id of a committed
\* insert, and the committed ids increase strictly in commit order.
C2_DistinctIncreasingIds ==
    /\ \A id \in BagToSet(returned) :
           /\ CopiesIn(id, returned) = 1
           /\ \E j \in 1..Len(commit_log) : commit_log[j] = id
    /\ \A i, j \in 1..Len(commit_log) : i < j => commit_log[i] < commit_log[j]

\* C2 witness: two callers have just returned ids, one of them after its
\* insert was refused and retried.
C2_Witness ==
    \E c, d \in Callers :
        /\ c # d
        /\ pc[c] = "done"
        /\ pc[d] = "done"
        /\ attempts[d] > 0
        /\ BagCardinality(returned) >= 2

\* C9: the table never holds more than one row, the row carries stub = True
\* and belongs to a call between its insert and its delete, and an insert
\* that finds a row adds none.
C9_SingleRow ==
    /\ [](/\ Cardinality(rows) <= 1
          /\ \A r \in rows :
                 /\ r.stub = StubDefault
                 /\ \E c \in Callers : pc[c] = "delete" /\ got[c] = r.id)
    /\ [][rows # {} => rows' \subseteq rows]_vars

\* C9 witness: after a completed call, an insert was refused while another
\* caller's row was in the table.
C9_Witness ==
    /\ rows # {}
    /\ BagCardinality(returned) >= 1
    /\ \E c \in Callers : pc[c] = "insert" /\ attempts[c] > 0

----------------------------------------------------------------------------
(* Properties of the mapping table (StoreSpec) *)

\* C3: a recorded mapping never changes; recordMapping on an unmapped key
\* stores the shard, on a mapped key it ends in DuplicateKey and stores
\* nothing; lookupShard returns the stored shard.
C3_WriteOnceMapping ==
    [][/\ \A k \in ShardKeys : mapping[k] # NoShard => mapping'[k] = mapping[k]
       /\ map_ops' # map_ops =>
              LET k == map_last'.key
              IN  /\ (map_last'.op = "recordMapping" /\ mapping[k] = NoShard) =>
                         (map_last'.outcome = "ok" /\ mapping'[k] = map_last'.shard)
                  /\ (map_last'.op = "recordMapping" /\ mapping[k] # NoShard) =>
                         (map_last'.outcome = "DuplicateKey" /\ mapping' = mapping)
                  /\ map_last'.op = "lookupShard" =>
                         (map_last'.shard = mapping[k] /\ mapping' = mapping)]_vars

\* C3 witness: a second recordMapping with another shard was refused.
C3_Witness ==
    /\ map_last.op = "recordMapping"
    /\ map_last.outcome = "DuplicateKey"
    /\ map_last.shard # mapping[map_last.key]

====
